---- MODULE Spec2Model ----
(***************************************************************************)
(* Build-history resolution and artifact acquisition of vscode-bisect      *)
(* (src/src/builds.ts, class Builds).                                      *)
(*                                                                         *)
(* Three specifications share the variables below:                         *)
(*   Spec       downloadAndExtractBuild: the download -> checksum ->       *)
(*              extract -> cache pipeline over an on-disk cache            *)
(*   SpecMeta   fetchBuildMeta with its ARM64 -> x64 stable fallback       *)
(*   SpecRange  loadHistory / fetchAllBuilds / resolveDateToBuild /        *)
(*              indexOf / fetchBuilds over bounded histories               *)
(***************************************************************************)
EXTENDS Integers, Sequences, FiniteSets, TLC

Undefined == "undefined"

(***************************************************************************)
(* Enumerations imported from ./constants.js (builds.ts line 10).          *)
(***************************************************************************)
MacOSX64 == "MacOSX64"
MacOSArm == "MacOSArm"
LinuxX64 == "LinuxX64"
LinuxArm == "LinuxArm"
WindowsX64 == "WindowsX64"
WindowsArm == "WindowsArm"
Platforms == {MacOSX64, MacOSArm, LinuxX64, LinuxArm, WindowsX64, WindowsArm}

X64 == "x64"
Arm64 == "arm64"
Archs == {X64, Arm64}

WebLocal == "WebLocal"
WebRemote == "WebRemote"
DesktopLocal == "DesktopLocal"
Runtimes == {WebLocal, WebRemote, DesktopLocal}

Stable == "stable"
Insider == "insider"
VSCodiumInsider == "vscodium-insider"

\* the qualities of the primary distribution channel
Qualities == {Stable, Insider}

FlavorDefault == "default"
FlavorCli == "cli"
FlavorDarwinUniversal == "universal"
FlavorWindowsUserInstaller == "win32-user"
FlavorWindowsSystemInstaller == "win32-system"
FlavorLinuxDeb == "linux-deb"
FlavorLinuxRPM == "linux-rpm"
FlavorLinuxSnap == "linux-snap"
FlavorCliLinuxAmd64 == "cli-linux-amd64"
Flavors ==
    {FlavorDefault, FlavorCli, FlavorDarwinUniversal, FlavorWindowsUserInstaller,
     FlavorWindowsSystemInstaller, FlavorLinuxDeb, FlavorLinuxRPM, FlavorLinuxSnap,
     FlavorCliLinuxAmd64}

\* isDockerCliFlavor of ./constants.js: the container-packaged CLI flavors.
isDockerCliFlavor(flavor) == flavor = FlavorCliLinuxAmd64

\* The host's `arch` constant of ./constants.js goes with the host's `platform`.
HostArch(p) == IF p \in {MacOSArm, LinuxArm, WindowsArm} THEN Arm64 ELSE X64

VARIABLES
    platform,   \* the host platform constant (`platform` of ./constants.js)
    build,      \* the IBuild the operation in progress was called with
    force,      \* options?.forceReDownload of the call in progress
    pc,         \* position of the operation in progress
    buildName,  \* downloadAndExtractBuild: buildName (line 244)
    meta,       \* downloadAndExtractBuild: the metadata fetched at line 261
    result,     \* what the last operation returned, or the error it threw
    files,      \* the cache: archive path -> content hash written there
    trees,      \* the cache: <<destination, archive name>> -> extraction state
    net,        \* network requests of the call in progress, in order
    unzipped,   \* whether the call in progress invoked unzip
    dl,         \* history: completed downloads per archive path
    forced,     \* history: a call with forceReDownload was made
    calls,      \* number of calls made so far
    spawned,    \* external tools the call in progress ran: <<[tool, status], ...>>
    acquired,   \* history: [key, root] of each completed acquisition still on disk:
                \* the cache path it was looked up by, the path it returned
    input,      \* SpecRange: the arguments of fetchBuilds and its environment
    range       \* SpecRange: the local variables of fetchBuilds

vars ==
    <<platform, build, force, pc, buildName, meta, result, files, trees, net,
      unzipped, dl, forced, calls, spawned, acquired, input, range>>

(***************************************************************************)
(* String helpers (node:path join / dirname, String.lastIndexOf,           *)
(* String.substring, String.split('/').pop()).                             *)
(***************************************************************************)
join(a, b) == a \o "/" \o b

\* s.lastIndexOf(sub), 0-based; -1 when sub does not occur
lastIndexOf(s, sub) ==
    LET n == Len(sub)
        hits == {i \in 1..(Len(s) - n + 1) : SubSeq(s, i, i + n - 1) = sub}
    IN  IF hits = {} THEN -1 ELSE (CHOOSE i \in hits : \A j \in hits : j <= i) - 1

\* s.substring(0, end): a negative end counts as 0
substring0(s, end) == IF end <= 0 THEN "" ELSE SubSeq(s, 1, end)

dirname(path) == substring0(path, lastIndexOf(path, "/"))

\* url.split('/').pop()
lastSegment(url) == SubSeq(url, lastIndexOf(url, "/") + 2, Len(url))

startsWith(s, prefix) == Len(s) >= Len(prefix) /\ SubSeq(s, 1, Len(prefix)) = prefix

(***************************************************************************)
(* Platform Naming Resolver.  A build kind is a record                     *)
(* [runtime, quality, flavor, platform, arch (, commit)], platform and     *)
(* arch being Undefined when the caller leaves them out.                   *)
(***************************************************************************)
effectivePlatform(b) == IF b.platform = Undefined THEN platform ELSE b.platform
effectiveArch(b) == IF b.arch = Undefined THEN HostArch(platform) ELSE b.arch

isServer(b) == b.runtime = WebLocal \/ b.runtime = WebRemote

getBuildApiName(b) ==
    LET ep == effectivePlatform(b)
        ea == effectiveArch(b)
    IN  IF isServer(b)
        THEN CASE ep \in {MacOSX64, MacOSArm} -> "server-darwin-web"
               [] ep \in {LinuxX64, LinuxArm} -> "server-linux-" \o ea \o "-web"
               [] ep \in {WindowsX64, WindowsArm} -> "server-win32-" \o ea \o "-web"
        ELSE CASE ep = MacOSX64 ->
                    IF b.flavor = FlavorDarwinUniversal THEN "darwin-universal" ELSE "darwin"
               [] ep = MacOSArm ->
                    IF b.flavor = FlavorDarwinUniversal THEN "darwin-universal"
                    ELSE "darwin-" \o Arm64
               [] ep \in {LinuxX64, LinuxArm} -> "linux-" \o ea
               [] ep \in {WindowsX64, WindowsArm} -> "win32-" \o ea

\* the final `switch` of getPlatformName
PlatformNameCli(ep, ea) ==
    CASE ep \in {MacOSX64, MacOSArm} -> "cli-darwin-" \o ea
      [] ep \in {LinuxX64, LinuxArm} -> "cli-linux-" \o ea
      [] ep \in {WindowsX64, WindowsArm} -> "cli-win32-" \o ea

\* the `case Platform.WindowsX64/WindowsArm` arm of getPlatformName; the Linux
\* arm has no break and falls into it when its flavor switch matches nothing
PlatformNameWindows(flavor, ep, ea) ==
    CASE flavor = FlavorDefault -> "win32-" \o ea \o "-archive"
      [] flavor = FlavorWindowsUserInstaller -> "win32-" \o ea \o "-user"
      [] flavor = FlavorWindowsSystemInstaller -> "win32-" \o ea
      [] OTHER -> PlatformNameCli(ep, ea)

getPlatformName(b) ==
    LET ep == effectivePlatform(b)
        ea == effectiveArch(b)
    IN  IF isServer(b)
        THEN CASE ep = MacOSX64 -> "server-darwin-web"
               [] ep = MacOSArm -> "server-darwin-" \o Arm64 \o "-web"
               [] ep \in {LinuxX64, LinuxArm} -> "server-linux-" \o ea \o "-web"
               [] ep \in {WindowsX64, WindowsArm} -> "server-win32-" \o ea \o "-web"
        ELSE IF b.flavor # FlavorCli
        THEN CASE ep = MacOSX64 ->
                    IF b.flavor = FlavorDarwinUniversal THEN "darwin-universal" ELSE "darwin"
               [] ep = MacOSArm ->
                    IF b.flavor = FlavorDarwinUniversal THEN "darwin-universal"
                    ELSE "darwin-" \o Arm64
               [] ep \in {LinuxX64, LinuxArm} ->
                    CASE b.flavor = FlavorDefault -> "linux-" \o ea
                      [] b.flavor = FlavorLinuxDeb -> "linux-deb-" \o ea
                      [] b.flavor = FlavorLinuxRPM -> "linux-rpm-" \o ea
                      [] b.flavor = FlavorLinuxSnap -> "linux-snap-" \o ea
                      [] OTHER -> PlatformNameWindows(b.flavor, ep, ea)
               [] ep \in {WindowsX64, WindowsArm} -> PlatformNameWindows(b.flavor, ep, ea)
        ELSE PlatformNameCli(ep, ea)

(***************************************************************************)
(* Metadata Fetcher.                                                       *)
(***************************************************************************)
\* What the version-metadata endpoint answers for one commit, platform name
\* and quality: the published artifact's url, product version and checksum.
ServerMeta(commit, name, quality) ==
    [url |-> "https://cdn/" \o quality \o "/" \o commit \o "/code-" \o name \o ".tar.gz",
     version |-> commit,
     productVersion |-> "1.96.0",
     sha256hash |-> "sha-" \o name]

\* the request a jsonGet of fetchBuildMeta sends
MetaRequest(commit, name, quality) ==
    "api/versions/commit:" \o commit \o "/" \o name \o "/" \o quality

MetaError(request) == [error |-> "MetadataFetchError", request |-> request]

fetchBuildMeta_RetryError(b, fail1, fail2) ==
    LET name1 == getPlatformName(b)
        req1 == MetaRequest(b.commit, name1, b.quality)
        x64 == [b EXCEPT !.platform = MacOSX64, !.arch = X64]
        name2 == getPlatformName(x64)
        req2 == MetaRequest(b.commit, name2, b.quality)
    IN  IF ~fail1
        THEN [ok |-> TRUE, value |-> ServerMeta(b.commit, name1, b.quality),
              requests |-> <<req1>>]
        ELSE IF effectivePlatform(b) = MacOSArm /\ b.quality = "stable"
        THEN IF ~fail2
             THEN [ok |-> TRUE, value |-> ServerMeta(b.commit, name2, b.quality),
                   requests |-> <<req1, req2>>]
             ELSE [ok |-> FALSE, value |-> MetaError(req2), requests |-> <<req1, req2>>]
        ELSE [ok |-> FALSE, value |-> MetaError(req1), requests |-> <<req1>>]

\* fetchBuildMeta: fail1 / fail2 say whether the first jsonGet and the retry's
\* jsonGet fail.  Returns the metadata or the error thrown, and the requests sent.
fetchBuildMeta(b, fail1, fail2) ==
    LET name1 == getPlatformName(b)
        req1 == MetaRequest(b.commit, name1, b.quality)
        x64 == [b EXCEPT !.platform = MacOSX64, !.arch = X64]
        name2 == getPlatformName(x64)
        req2 == MetaRequest(b.commit, name2, b.quality)
    IN  IF ~fail1
        THEN [ok |-> TRUE, value |-> ServerMeta(b.commit, name1, b.quality),
              requests |-> <<req1>>]
        ELSE IF effectivePlatform(b) = MacOSArm /\ b.quality = "stable"
        THEN IF ~fail2
             THEN [ok |-> TRUE, value |-> ServerMeta(b.commit, name2, b.quality),
                   requests |-> <<req1, req2>>]
             ELSE [ok |-> FALSE, value |-> MetaError(req1), requests |-> <<req1, req2>>]
        ELSE [ok |-> FALSE, value |-> MetaError(req1), requests |-> <<req1>>]

(***************************************************************************)
(* Download file name (getBuildDownloadName).  The Linux and Windows       *)
(* desktop arms fetch the build's metadata; the result carries the         *)
(* requests that fetch sent, or the error it threw.                        *)
(***************************************************************************)
Named(name) == [ok |-> TRUE, value |-> name, requests |-> <<>>]

\* the final `switch` of getBuildDownloadName
DownloadNameCli(ep) ==
    CASE ep = MacOSX64 -> "vscode_cli_darwin_x64_cli.zip"
      [] ep = MacOSArm -> "vscode_cli_darwin_arm64_cli.zip"
      [] ep = LinuxX64 -> "vscode_cli_linux_x64_cli.tar.gz"
      [] ep = LinuxArm -> "vscode_cli_linux_arm64_cli.tar.gz"
      [] ep = WindowsX64 -> "vscode_cli_win32_x64_cli.zip"
      [] ep = WindowsArm -> "vscode_cli_win32_arm64_cli.zip"

getBuildDownloadName(b, fail1, fail2) ==
    LET ep == effectivePlatform(b)
        ea == effectiveArch(b)
        buildMeta == fetchBuildMeta(b, fail1, fail2)
    IN  IF isServer(b)
        THEN CASE ep \in {MacOSX64, MacOSArm} ->
                    Named("vscode-server-darwin-" \o ea \o "-web.zip")
               [] ep \in {LinuxX64, LinuxArm} ->
                    Named("vscode-server-linux-" \o ea \o "-web.tar.gz")
               [] ep \in {WindowsX64, WindowsArm} ->
                    Named("vscode-server-win32-" \o ea \o "-web.zip")
        ELSE IF b.flavor # FlavorCli
        THEN CASE ep = MacOSX64 ->
                    Named(IF b.flavor = FlavorDarwinUniversal
                          THEN "VSCode-darwin-universal.zip" ELSE "VSCode-darwin.zip")
               [] ep = MacOSArm ->
                    Named(IF b.flavor = FlavorDarwinUniversal
                          THEN "VSCode-darwin-universal.zip"
                          ELSE "VSCode-darwin-" \o Arm64 \o ".zip")
               [] ep \in {LinuxX64, LinuxArm} ->
                    IF buildMeta.ok
                    THEN [buildMeta EXCEPT !.value = lastSegment(buildMeta.value.url)]
                    ELSE buildMeta
               [] ep \in {WindowsX64, WindowsArm} ->
                    IF ~buildMeta.ok THEN buildMeta
                    ELSE [buildMeta EXCEPT !.value =
                            CASE b.flavor = FlavorDefault ->
                                    "VSCode-win32-" \o ea \o "-"
                                        \o buildMeta.value.productVersion \o ".zip"
                              [] b.flavor = FlavorWindowsSystemInstaller ->
                                    "VSCodeSetup-" \o ea \o "-"
                                        \o buildMeta.value.productVersion \o ".exe"
                              [] b.flavor = FlavorWindowsUserInstaller ->
                                    "VSCodeUserSetup-" \o ea \o "-"
                                        \o buildMeta.value.productVersion \o ".exe"
                              [] OTHER -> DownloadNameCli(ep)]
        ELSE Named(DownloadNameCli(ep))

(***************************************************************************)
(* The on-disk cache (./files.js: getBuildPath, exists; node:fs rmSync).   *)
(***************************************************************************)
getBuildPath(commit, quality, flavor) ==
    join(join(join("builds", quality), flavor), commit)

exists(path) == path \in DOMAIN files

rmFiles_NotRecursive(folder) == files

\* rmSync(folder, { recursive: true }): what is left of a map keyed by paths
rmFiles(folder) ==
    LET keep == {p \in DOMAIN files : ~startsWith(p, folder \o "/")}
    IN  [p \in keep |-> files[p]]

rmTrees(folder) ==
    LET keep == {t \in DOMAIN trees : ~startsWith(t[2], folder \o "/")}
    IN  [t \in keep |-> trees[t]]

rmAcquired(folder) ==
    {a \in acquired : a.key # folder /\ ~startsWith(a.key, folder \o "/")}

\* a completed acquisition: looked up by key, returned root
Acquisition(key, root) == [key |-> key, root |-> root]

\* flavors whose artifact is unzipped (line 274); the others are installers
isExtracted(flavor) ==
    flavor = FlavorDefault \/ flavor = FlavorCli \/ flavor = FlavorDarwinUniversal

\* the unzip destination of lines 275-282
Destination(b, path) ==
    IF (b.runtime = DesktopLocal \/ b.runtime = WebLocal) /\ b.flavor = FlavorDefault
        /\ (platform = WindowsX64 \/ platform = WindowsArm)
    THEN substring0(path, lastIndexOf(path, ".zip"))
    ELSE dirname(path)

(***************************************************************************)
(* Acquisition Engine: downloadAndExtractBuild, one action per stretch of  *)
(* code between two suspension points.                                     *)
(***************************************************************************)
MaxCalls == 3

Commits == {"c1"}

Rest == {"idle", "done", "failed"}

NoResult == [status |-> "none", value |-> Undefined]
Returned(v) == [status |-> "returned", value |-> v]
Thrown(e) == [status |-> "thrown", value |-> e]

\* no metadata fetched yet
NoMeta == [url |-> "", version |-> "", productVersion |-> "", sha256hash |-> ""]

\* the { runtime, commit, quality, flavor } literal of lines 244 and 261:
\* the build's own platform and arch are not passed on
Kind(b) ==
    [runtime |-> b.runtime, commit |-> b.commit, quality |-> b.quality,
     flavor |-> b.flavor, platform |-> Undefined, arch |-> Undefined]

\* line 246
CachePath(b, name) == join(getBuildPath(b.commit, b.quality, b.flavor), name)

path == CachePath(build, buildName)

cacheHit_Never(pathExists, forceReDownload) == FALSE

\* line 249
cacheHit(pathExists, forceReDownload) == pathExists /\ ~forceReDownload

checksumMatches_Always(expectedSHA256, computedSHA256) == TRUE

\* line 267
checksumMatches(expectedSHA256, computedSHA256) == expectedSHA256 = computedSHA256

IntegrityError(expectedSHA256, computedSHA256) ==
    [error |-> "IntegrityError", expected |-> expectedSHA256, computed |-> computedSHA256]

\* lines 233-242: entry, up to the first await
Acquire(runtime, forceReDownload) ==
    /\ pc \in Rest
    /\ calls < MaxCalls
    /\ calls' = calls + 1
    /\ build' = [build EXCEPT !.runtime = runtime]
    /\ force' = forceReDownload
    /\ forced' = (forced \/ forceReDownload)
    /\ net' = <<>>
    /\ unzipped' = FALSE
    /\ buildName' = Undefined
    /\ meta' = NoMeta
    /\ IF isDockerCliFlavor(build.flavor)
       THEN pc' = "done" /\ result' = Returned(Undefined)
       ELSE pc' = "name" /\ result' = NoResult
    /\ UNCHANGED <<spawned, acquired>>
    /\ UNCHANGED <<platform, files, trees, dl, input, range>>

\* line 244: await this.getBuildDownloadName(...)
GetName ==
    /\ pc = "name"
    /\ \E fail1, fail2 \in BOOLEAN :
        LET r == getBuildDownloadName(Kind(build), fail1, fail2)
        IN  /\ net' = net \o r.requests
            /\ IF r.ok
               THEN pc' = "check" /\ buildName' = r.value /\ result' = result
               ELSE pc' = "failed" /\ buildName' = buildName /\ result' = Thrown(r.value)
    /\ UNCHANGED <<spawned, acquired>>
    /\ UNCHANGED <<platform, build, force, meta, files, trees, unzipped, dl, forced,
                   calls, input, range>>

\* lines 246-258: the cache check and the forced deletion
CheckCache ==
    /\ pc = "check"
    /\ LET pathExists == exists(path)
           folder == getBuildPath(build.commit, build.quality, build.flavor)
       IN  IF cacheHit(pathExists, force)
           THEN /\ pc' = "done"
                /\ result' = Returned(path)
                /\ UNCHANGED <<files, trees, acquired>>
           ELSE /\ pc' = "meta"
                /\ result' = result
                /\ IF pathExists /\ force
                   THEN /\ files' = rmFiles(folder)
                        /\ trees' = rmTrees(folder)
                        /\ acquired' = rmAcquired(folder)
                   ELSE UNCHANGED <<files, trees, acquired>>
    /\ UNCHANGED spawned
    /\ UNCHANGED <<platform, build, force, buildName, meta, net, unzipped, dl, forced,
                   calls, input, range>>

\* line 261: await this.fetchBuildMeta(...)
FetchMeta ==
    /\ pc = "meta"
    /\ \E fail1, fail2 \in BOOLEAN :
        LET r == fetchBuildMeta(Kind(build), fail1, fail2)
        IN  /\ net' = net \o r.requests
            /\ IF r.ok
               THEN pc' = "download" /\ meta' = r.value /\ result' = result
               ELSE pc' = "failed" /\ meta' = meta /\ result' = Thrown(r.value)
    /\ UNCHANGED <<spawned, acquired>>
    /\ UNCHANGED <<platform, build, force, buildName, files, trees, unzipped, dl, forced,
                   calls, input, range>>

\* the checksum of a body that is not the one the metadata was published for
Corrupt == "sha-corrupt"

\* line 263: await fileGet(url, path).  fileGet writes the whole body to path or
\* throws before it wrote anything; the body written is the artifact the
\* metadata's checksum was published for, or differs from it.
Download ==
    /\ pc = "download"
    /\ net' = Append(net, meta.url)
    /\ \/ \E sha \in {meta.sha256hash, Corrupt} :
            /\ files' = [p \in DOMAIN files \cup {path} |->
                            IF p = path THEN sha ELSE files[p]]
            /\ dl' = [p \in DOMAIN dl \cup {path} |->
                            IF p = path
                            THEN (IF p \in DOMAIN dl THEN dl[p] ELSE 0) + 1
                            ELSE dl[p]]
            /\ pc' = "verify"
            /\ result' = result
       \/ /\ pc' = "failed"
          /\ result' = Thrown([error |-> "DownloadError", url |-> meta.url])
          /\ UNCHANGED <<files, dl>>
    /\ UNCHANGED <<spawned, acquired>>
    /\ UNCHANGED <<platform, build, force, buildName, meta, trees, unzipped, forced,
                   calls, input, range>>

\* lines 266-274 and 289: the checksum comparison, and the installer's return
Verify ==
    /\ pc = "verify"
    /\ LET expectedSHA256 == meta.sha256hash
           computedSHA256 == files[path]
       IN  IF ~checksumMatches(expectedSHA256, computedSHA256)
           THEN /\ pc' = "failed"
                /\ result' = Thrown(IntegrityError(expectedSHA256, computedSHA256))
                /\ acquired' = acquired
           ELSE IF isExtracted(build.flavor)
           THEN pc' = "unzip" /\ result' = result /\ acquired' = acquired
           ELSE /\ pc' = "done"
                /\ result' = Returned(path)
                /\ acquired' = acquired \cup {Acquisition(path, path)}
    /\ UNCHANGED spawned
    /\ UNCHANGED <<platform, build, force, buildName, meta, files, trees, net, unzipped,
                   dl, forced, calls, input, range>>

\* lines 275-286: await unzip(path, destination), which extracts everything or
\* throws with the destination partly written
Unzip ==
    /\ pc = "unzip"
    /\ unzipped' = TRUE
    /\ LET destination == Destination(build, path)
           t == <<destination, path>>
       IN  \/ /\ trees' = [x \in DOMAIN trees \cup {t} |->
                              IF x = t THEN "full" ELSE trees[x]]
              /\ pc' = "done"
              /\ result' = Returned(destination)
              /\ acquired' = acquired \cup {Acquisition(path, destination)}
           \/ /\ trees' = [x \in DOMAIN trees \cup {t} |->
                              IF x = t THEN "partial" ELSE trees[x]]
              /\ pc' = "failed"
              /\ result' = Thrown([error |-> "ExtractError", archive |-> path])
              /\ acquired' = acquired
    /\ UNCHANGED spawned
    /\ UNCHANGED <<platform, build, force, buildName, meta, files, net, dl, forced,
                   calls, input, range>>

Empty == [x \in {} |-> Undefined]

Init ==
    /\ platform \in Platforms
    /\ build \in [runtime : {DesktopLocal}, commit : Commits, quality : Qualities,
                  flavor : Flavors, platform : {Undefined}, arch : {Undefined}]
                \cup [runtime : {DesktopLocal}, commit : Commits, quality : Qualities,
                      flavor : Flavors, platform : {LinuxArm}, arch : {Arm64}]
    /\ force = FALSE
    /\ pc = "idle"
    /\ buildName = Undefined
    /\ meta = NoMeta
    /\ result = NoResult
    /\ files = Empty
    /\ trees = Empty
    /\ net = <<>>
    /\ unzipped = FALSE
    /\ dl = Empty
    /\ forced = FALSE
    /\ calls = 0
    /\ spawned = <<>>
    /\ acquired = {}
    /\ input = Undefined
    /\ range = Undefined

Next ==
    \/ \E runtime \in Runtimes, forceReDownload \in BOOLEAN :
            Acquire(runtime, forceReDownload)
    \/ GetName
    \/ CheckCache
    \/ FetchMeta
    \/ Download
    \/ Verify
    \/ Unzip

Spec == Init /\ [][Next]_vars

(***************************************************************************)
(* Properties of the Acquisition Engine (checked under Spec).              *)
(***************************************************************************)
\* the call in progress reached the cache check with its path present and
\* forceReDownload unset
CachedAtCheck == pc = "check" /\ exists(path) /\ ~force

\* the call that just ended returned from the cache check (line 252)
ReturnedFromCache ==
    /\ pc = "done"
    /\ result.status = "returned"
    /\ meta = NoMeta
    /\ ~isDockerCliFlavor(build.flavor)

\* the builds whose download name is derived from fetched metadata
NameNeedsMeta ==
    /\ ~isServer(build)
    /\ build.flavor # FlavorCli
    /\ platform \in {LinuxX64, LinuxArm, WindowsX64, WindowsArm}

\* C1 (as claimed): for every primary-channel, non-container build, a call that
\* finds its cache path present with forceReDownload unset has made zero
\* network calls (no metadata fetch, no download) and returns the path.
C1_ZeroNetworkCalls ==
    [][CachedAtCheck =>
        (pc' = "done" /\ result' = Returned(path) /\ net' = <<>> /\ dl' = dl)]_vars

\* C1 (amended): such a call downloads nothing, leaves the cache untouched and
\* returns the path; it has sent no request, except the single metadata request
\* that computing the download name takes for desktop, non-CLI builds on Linux
\* and Windows hosts.
C1_CacheHitDownloadsNothing ==
    [][CachedAtCheck =>
        /\ pc' = "done"
        /\ result' = Returned(path)
        /\ dl' = dl /\ files' = files /\ trees' = trees
        /\ net' = IF NameNeedsMeta
                  THEN <<MetaRequest(build.commit, getPlatformName(Kind(build)),
                                     build.quality)>>
                  ELSE <<>>]_vars

C1_Witness == ReturnedFromCache /\ ~force /\ result.value = path /\ exists(path)

\* C2: while forceReDownload has never been set, no archive path of the cache
\* key has been downloaded to more than once.
C2_AtMostOneDownload == ~forced => \A p \in DOMAIN dl : dl[p] <= 1

C2_Witness ==
    /\ ~forced
    /\ ReturnedFromCache
    /\ path \in DOMAIN dl
    /\ dl[path] = 1
    /\ calls >= 2

\* the artifact at p is the one the metadata's checksum names and, for the
\* flavors that are unzipped, it has been extracted completely
FullyAcquired(p) ==
    /\ p \in DOMAIN files
    /\ files[p] # Corrupt
    /\ isExtracted(build.flavor) =>
            \E t \in DOMAIN trees : t[2] = p /\ trees[t] = "full"

\* C3: every call that returns a path returns it for a build that was fully
\* acquired (downloaded, checksum-verified, extracted unless an installer),
\* also when it follows a failed call for the same cache key.
C3_AllOrNothing ==
    (pc = "done" /\ result.status = "returned" /\ result.value # Undefined)
        => FullyAcquired(path)

\* C4: a checksum that differs from the metadata's sha256hash makes the call
\* fail with an integrity error naming both values, without extracting, and
\* with the downloaded file still at the cache path.
C4_ChecksumMismatchFails ==
    [][(pc = "verify" /\ meta.sha256hash # files[path]) =>
        /\ pc' = "failed"
        /\ result' = Thrown(IntegrityError(meta.sha256hash, files[path]))
        /\ files' = files /\ path \in DOMAIN files'
        /\ trees' = trees
        /\ ~unzipped']_vars

C4_Witness ==
    /\ pc = "failed"
    /\ result.status = "thrown"
    /\ result.value.error = "IntegrityError"
    /\ result.value.expected = meta.sha256hash
    /\ result.value.computed = Corrupt
    /\ exists(path)
    /\ ~unzipped

\* the cache directory of the key of the build being acquired
Folder == getBuildPath(build.commit, build.quality, build.flavor)

\* nothing is left in the cache directory of the key
FolderGone(fs, ts) ==
    /\ \A p \in DOMAIN fs : ~startsWith(p, Folder \o "/")
    /\ \A t \in DOMAIN ts : ~startsWith(t[2], Folder \o "/")

\* C12: a call with forceReDownload set that finds its cache path present
\* deletes the whole cache directory of the key before the metadata fetch of
\* the pipeline and before the download, does not return the cached path, and
\* returns only after it fetched the metadata, downloaded the artifact again,
\* verified its checksum and (unless an installer) extracted it.
C12_ForcedReDownload ==
    [][/\ (pc = "check" /\ exists(path) /\ force) =>
            /\ meta = NoMeta
            /\ FolderGone(files', trees')
            /\ dl' = dl
            /\ pc' = "meta"
            /\ result' = NoResult
       /\ (force /\ pc \in {"meta", "download"}) =>
            (~exists(path) /\ pc' # "done")
       /\ (force /\ pc \notin Rest /\ pc' = "done") =>
            /\ meta # NoMeta
            /\ path \in DOMAIN dl /\ dl[path] >= 1
            /\ files'[path] = meta.sha256hash
            /\ net'[Len(net')] = meta.url
            /\ IF isExtracted(build.flavor)
               THEN /\ unzipped'
                    /\ trees'[<<Destination(build, path), path>>] = "full"
                    /\ result' = Returned(Destination(build, path))
               ELSE result' = Returned(path)]_vars

C12_Witness ==
    /\ force
    /\ pc = "done"
    /\ result.status = "returned"
    /\ isExtracted(build.flavor)
    /\ unzipped
    /\ path \in DOMAIN dl
    /\ dl[path] = 2
    /\ files[path] = meta.sha256hash

\* C17: a call that returns from the cache returns the same path as the
\* earlier call that downloaded (and, unless an installer, extracted) the build
\* returned: the root directory of the build for the flavors that are
\* extracted.
C17_IdempotentResult ==
    (ReturnedFromCache /\ ~force) =>
        \A a \in acquired : a.key = path => result.value = a.root

(***************************************************************************)
(* SpecMeta: fetchBuildMeta applied to every build kind, with the build's  *)
(* own platform and arch present or absent, on every host, under every     *)
(* outcome of its two requests (input.fail1: the first jsonGet fails;      *)
(* input.fail2: the retry's jsonGet fails).                                *)
(***************************************************************************)
InitMeta ==
    /\ platform \in Platforms
    /\ build \in [runtime : Runtimes, commit : Commits, quality : Qualities,
                  flavor : Flavors, platform : Platforms \cup {Undefined},
                  arch : Archs \cup {Undefined}]
    /\ input \in [fail1 : BOOLEAN, fail2 : BOOLEAN]
    /\ force = FALSE
    /\ pc = "idle"
    /\ buildName = Undefined
    /\ meta = NoMeta
    /\ result = NoResult
    /\ files = Empty
    /\ trees = Empty
    /\ net = <<>>
    /\ unzipped = FALSE
    /\ dl = Empty
    /\ forced = FALSE
    /\ calls = 0
    /\ spawned = <<>>
    /\ acquired = {}
    /\ range = Undefined

FetchBuildMetaCall ==
    /\ pc = "idle"
    /\ LET r == fetchBuildMeta(build, input.fail1, input.fail2)
       IN  /\ net' = r.requests
           /\ IF r.ok
              THEN pc' = "done" /\ result' = Returned(r.value)
              ELSE pc' = "failed" /\ result' = Thrown(r.value)
    /\ UNCHANGED <<spawned, acquired>>
    /\ UNCHANGED <<platform, build, force, buildName, meta, files, trees, unzipped, dl,
                   forced, calls, input, range>>

NextMeta == FetchBuildMetaCall

SpecMeta == InitMeta /\ [][NextMeta]_vars

\* the first request of fetchBuildMeta and the one of its Intel macOS retry
FirstRequest == MetaRequest(build.commit, getPlatformName(build), build.quality)

IntelBuild == [build EXCEPT !.platform = MacOSX64, !.arch = X64]

RetryRequest == MetaRequest(build.commit, getPlatformName(IntelBuild), build.quality)

\* Apple-silicon macOS is the effective platform and the quality is stable
FallbackApplies ==
    /\ (IF build.platform = Undefined THEN platform ELSE build.platform) = MacOSArm
    /\ build.quality = Stable

\* C5: when the metadata query fails on Apple-silicon macOS / stable, exactly
\* one retry is made for Intel macOS and its result is returned on success; if
\* the retry fails too, the original error is raised; on every other platform
\* or quality the original error is raised and no retry is made.
C5_MetadataFallback ==
    pc \in {"done", "failed"} =>
        CASE ~input.fail1 ->
                /\ net = <<FirstRequest>>
                /\ result = Returned(ServerMeta(build.commit, getPlatformName(build),
                                                build.quality))
          [] input.fail1 /\ FallbackApplies /\ ~input.fail2 ->
                /\ net = <<FirstRequest, RetryRequest>>
                /\ result = Returned(ServerMeta(build.commit, getPlatformName(IntelBuild),
                                                build.quality))
          [] input.fail1 /\ FallbackApplies /\ input.fail2 ->
                /\ net = <<FirstRequest, RetryRequest>>
                /\ result = Thrown(MetaError(FirstRequest))
          [] input.fail1 /\ ~FallbackApplies ->
                /\ net = <<FirstRequest>>
                /\ result = Thrown(MetaError(FirstRequest))

C5_Witness ==
    /\ pc = "failed"
    /\ FallbackApplies
    /\ input.fail1 /\ input.fail2
    /\ Len(net) = 2
    /\ net[2] # net[1]
    /\ result.value.request = net[1]

(***************************************************************************)
(* History Source, Reference Resolver and Range Builder.                   *)
(*                                                                         *)
(* Points in time are counted in days since 1970-01-01 and the host's      *)
(* time zone is UTC: a numeric `date` of n stands for the timestamp of day *)
(* n.  A `date`, `version` or reference that is absent is the tagged value *)
(* NoDate / Undefined.                                                     *)
(***************************************************************************)
NoDate == [type |-> "undefined", number |-> 0, string |-> ""]
NumberDate(n) == [type |-> "number", number |-> n, string |-> ""]
StringDate(str) == [type |-> "string", number |-> 0, string |-> str]

digitValue(c) ==
    CASE c = "0" -> 0 [] c = "1" -> 1 [] c = "2" -> 2 [] c = "3" -> 3 [] c = "4" -> 4
      [] c = "5" -> 5 [] c = "6" -> 6 [] c = "7" -> 7 [] c = "8" -> 8 [] c = "9" -> 9

isDigit(c) == c \in {"0", "1", "2", "3", "4", "5", "6", "7", "8", "9"}

charAt(str, i) == SubSeq(str, i, i)

\* Number(str) for a string of decimal digits
RECURSIVE Number(_)
Number(str) ==
    IF Len(str) = 0 THEN 0
    ELSE Number(SubSeq(str, 1, Len(str) - 1)) * 10 + digitValue(charAt(str, Len(str)))

\* days from 1970-01-01 to the civil date y-m-d (m in 1..12; d may run over)
daysFromCivil(y, m, d) ==
    LET yy == IF m <= 2 THEN y - 1 ELSE y
        era == yy \div 400
        yoe == yy - era * 400
        mp == (m + 9) % 12
        doy == (153 * mp + 2) \div 5 + d - 1
        doe == yoe * 365 + yoe \div 4 - yoe \div 100 + doy
    IN  era * 146097 + doe - 719468

\* new Date(year, monthIndex, day).getTime(): a month index outside 0..11
\* carries into the year, a two-digit year counts from 1900
DateLocal(year, monthIndex, day) ==
    LET y == (IF year >= 0 /\ year <= 99 THEN 1900 + year ELSE year) + monthIndex \div 12
        m == monthIndex % 12
    IN  daysFromCivil(y, m + 1, day)

\* new Date("YYYY-MM-DD").getTime()
DateParse(str) ==
    daysFromCivil(Number(SubSeq(str, 1, 4)), Number(SubSeq(str, 6, 7)),
                  Number(SubSeq(str, 9, 10)))

\* positions of the dashes of str
dashes(str) == {i \in 1..Len(str) : charAt(str, i) = "-"}

\* /^\d{1,2}-\d{1,2}-\d{4}$/.test(str)
dateRegexTest(str) ==
    /\ Cardinality(dashes(str)) = 2
    /\ LET a == CHOOSE i \in dashes(str) : \A j \in dashes(str) : i <= j
           b == CHOOSE i \in dashes(str) : \A j \in dashes(str) : j <= i
       IN  /\ a - 1 \in {1, 2}
           /\ b - a - 1 \in {1, 2}
           /\ Len(str) - b = 4
           /\ \A i \in (1..Len(str)) \ {a, b} : isDigit(charAt(str, i))

\* dateStr.split('-').map(Number)
splitDate(dateStr) ==
    LET a == CHOOSE i \in dashes(dateStr) : \A j \in dashes(dateStr) : i <= j
        b == CHOOSE i \in dashes(dateStr) : \A j \in dashes(dateStr) : j <= i
    IN  [day |-> Number(SubSeq(dateStr, 1, a - 1)),
         month |-> Number(SubSeq(dateStr, a + 1, b - 1)),
         year |-> Number(SubSeq(dateStr, b + 1, Len(dateStr)))]

\* lines 147-152
buildTime(date) == IF date.type = "number" THEN date.number ELSE DateParse(date.string)

abs(x) == IF x < 0 THEN -x ELSE x

\* !build.date (line 145)
falsy(date) ==
    \/ date.type = "undefined"
    \/ date.type = "number" /\ date.number = 0
    \/ date.type = "string" /\ date.string = ""

\* Number.MAX_VALUE (line 142), above every distance of the model
MAX_VALUE == 2147483647

\* line 155
closer(diff, minDiff) == diff < minDiff

\* the loop of lines 144-159 from build i on (1-based); best = 0: no bestBuild yet
RECURSIVE scanBuilds(_, _, _, _, _)
scanBuilds(builds, targetTime, i, best, minDiff) ==
    IF i > Len(builds) THEN best
    ELSE IF falsy(builds[i].date)
    THEN scanBuilds(builds, targetTime, i + 1, best, minDiff)
    ELSE LET diff == abs(buildTime(builds[i].date) - targetTime)
         IN  IF closer(diff, minDiff)
             THEN scanBuilds(builds, targetTime, i + 1, i, diff)
             ELSE scanBuilds(builds, targetTime, i + 1, best, minDiff)

ResolutionError(dateStr) == [error |-> "ResolutionError", ref |-> dateStr]

\* resolveDateToBuild: the commit returned, or the error thrown
resolveDateToBuild(dateStr, builds) ==
    LET parts == splitDate(dateStr)
        targetTime == DateLocal(parts.year, parts.month - 1, parts.day)
        bestBuild == scanBuilds(builds, targetTime, 1, 0, MAX_VALUE)
    IN  IF bestBuild # 0
        THEN [ok |-> TRUE, value |-> builds[bestBuild].commit]
        ELSE [ok |-> FALSE, value |-> ResolutionError(dateStr)]

\* indexOf: the 0-based index of the first build with that commit; -1 stands
\* for the `undefined` it returns when there is none
indexOf(commit, builds) ==
    LET hits == {i \in 1..Len(builds) : builds[i].commit = commit}
    IN  IF hits = {} THEN -1 ELSE (CHOOSE i \in hits : \A j \in hits : i <= j) - 1

min(a, b) == IF a < b THEN a ELSE b

slice_DropsLast(seq, start, end) == SubSeq(seq, start + 1, min(end, Len(seq)) - 1)

\* Array.prototype.slice(start, end) for start, end >= 0
slice(seq, start, end) == SubSeq(seq, start + 1, min(end, Len(seq)))

\* Array.prototype.slice().reverse()
reverse(seq) == [i \in 1..Len(seq) |-> seq[Len(seq) + 1 - i]]

\* lines 39-44
historyFilename(quality) ==
    IF quality = VSCodiumInsider THEN "vscodium_insider_history.json"
    ELSE IF quality = Insider THEN "vscode_insider_history.json"
    ELSE "vscode_stable_history.json"

loadHistory_NoReverse(quality, cwd) ==
    IF cwd[historyFilename(quality)].readable
    THEN cwd[historyFilename(quality)].entries
    ELSE <<>>

\* loadHistory: the records of the quality's file in the working directory cwd,
\* newest first; [] when the file cannot be read or parsed
loadHistory(quality, cwd) ==
    IF cwd[historyFilename(quality)].readable
    THEN reverse(cwd[historyFilename(quality)].entries)
    ELSE <<>>

\* an element of the parsed array that is JSON null, not a record
Null == [null |-> TRUE]

\* lines 187 and 196: the IBuild made of a history record, or of a commit alone
localBuild(h, kind) ==
    [commit |-> h.commit, date |-> h.date, version |-> h.version, assets |-> h.assets,
     runtime |-> kind.runtime, quality |-> kind.quality, flavor |-> kind.flavor]

minimalBuild(commit, kind) ==
    [commit |-> commit, date |-> NoDate, version |-> Undefined, assets |-> Undefined,
     runtime |-> kind.runtime, quality |-> kind.quality, flavor |-> kind.flavor]

\* the url of line 192
commitsUrl(kind, releasedOnly) ==
    "api/commits/" \o kind.quality \o "/" \o getBuildApiName(kind) \o "?released="
        \o (IF releasedOnly THEN "true" ELSE "false")

\* fetchAllBuilds: the builds returned or the error thrown, and the requests sent
fetchAllBuilds(kind, releasedOnly, useDiscovery, cwd, remote) ==
    LET history == loadHistory(kind.quality, cwd)
        url == commitsUrl(kind, releasedOnly)
    IN  IF ~useDiscovery /\ Len(history) > 0
        THEN IF \E i \in 1..Len(history) : history[i] = Null
             THEN \* line 187: h.commit of null throws, outside loadHistory's try
                  [ok |-> FALSE, requests |-> <<>>,
                   value |-> [error |-> "TypeError", url |-> ""]]
             ELSE [ok |-> TRUE, requests |-> <<>>,
                   value |-> [i \in 1..Len(history) |-> localBuild(history[i], kind)]]
        ELSE IF remote.ok
        THEN [ok |-> TRUE, requests |-> <<url>>,
              value |-> [i \in 1..Len(remote.commits) |->
                            minimalBuild(remote.commits[i], kind)]]
        ELSE [ok |-> FALSE, requests |-> <<url>>,
              value |-> [error |-> "DiscoveryError", url |-> url]]

ReferenceNotFoundError(side, ref) ==
    [error |-> "ReferenceNotFoundError", side |-> side, ref |-> ref]

InvalidRangeError(badCommit, goodCommit) ==
    [error |-> "InvalidRangeError", bad |-> badCommit, good |-> goodCommit]

\* the locals of fetchBuilds before anything was computed
NoRange ==
    [allBuilds |-> <<>>, stage |-> "load", goodCommit |-> Undefined,
     badCommit |-> Undefined, goodCommitIndex |-> -1, badCommitIndex |-> -1,
     buildsInRange |-> <<>>]

defaultGoodCommitIndex_OffByOne(allBuilds) == Len(allBuilds) - 2

\* line 94
defaultGoodCommitIndex(allBuilds) == Len(allBuilds) - 1

invalidRange_SameAllowed(badCommitIndex, goodCommitIndex) ==
    badCommitIndex > goodCommitIndex

\* line 113
invalidRange(badCommitIndex, goodCommitIndex) == badCommitIndex >= goodCommitIndex

isExcluded(commit, excludeCommits) ==
    \E i \in 1..Len(excludeCommits) : excludeCommits[i] = commit

excludeFilter_DropsNext(buildsInRange, excludeCommits) ==
    LET drop == {i \in 1..Len(buildsInRange) :
                    \/ isExcluded(buildsInRange[i].commit, excludeCommits)
                    \/ i > 1 /\ isExcluded(buildsInRange[i - 1].commit, excludeCommits)}
        keep(b) == \E i \in (1..Len(buildsInRange)) \ drop : buildsInRange[i] = b
    IN  SelectSeq(buildsInRange, keep)

\* lines 121-130: the builds of the range whose commit is not excluded
excludeFilter(buildsInRange, excludeCommits) ==
    LET keep(b) == ~isExcluded(b.commit, excludeCommits)
    IN  IF Len(excludeCommits) > 0 THEN SelectSeq(buildsInRange, keep) ELSE buildsInRange

\* fetchBuilds from line 84 on: what it returns or throws, and its locals at
\* that point (stage: the last statement group it reached)
resolveRange(allBuilds, goodRef, badRef, excludeCommits) ==
    LET goodRes == IF goodRef # Undefined /\ dateRegexTest(goodRef)
                   THEN resolveDateToBuild(goodRef, allBuilds)
                   ELSE [ok |-> TRUE, value |-> goodRef]
        badRes == IF badRef # Undefined /\ dateRegexTest(badRef)
                  THEN resolveDateToBuild(badRef, allBuilds)
                  ELSE [ok |-> TRUE, value |-> badRef]
        goodCommit == goodRes.value
        badCommit == badRes.value
        candidateGoodCommitIndex == indexOf(goodCommit, allBuilds)
        candidateBadCommitIndex == indexOf(badCommit, allBuilds)
        goodCommitIndex == IF goodCommit # Undefined THEN candidateGoodCommitIndex
                           ELSE defaultGoodCommitIndex(allBuilds)
        badCommitIndex == IF badCommit # Undefined THEN candidateBadCommitIndex ELSE 0
        buildsInRange == slice(allBuilds, badCommitIndex, goodCommitIndex + 1)
        locals == [NoRange EXCEPT !.allBuilds = allBuilds]
    IN  IF ~goodRes.ok
        THEN [result |-> Thrown(goodRes.value),
              locals |-> [locals EXCEPT !.stage = "goodDate"]]
        ELSE IF ~badRes.ok
        THEN [result |-> Thrown(badRes.value),
              locals |-> [locals EXCEPT !.stage = "badDate", !.goodCommit = goodCommit]]
        ELSE IF goodCommit # Undefined /\ candidateGoodCommitIndex = -1
        THEN [result |-> Thrown(ReferenceNotFoundError("good", goodCommit)),
              locals |-> [locals EXCEPT !.stage = "goodIndex", !.goodCommit = goodCommit,
                                        !.badCommit = badCommit]]
        ELSE IF badCommit # Undefined /\ candidateBadCommitIndex = -1
        THEN [result |-> Thrown(ReferenceNotFoundError("bad", badCommit)),
              locals |-> [locals EXCEPT !.stage = "badIndex", !.goodCommit = goodCommit,
                                        !.badCommit = badCommit,
                                        !.goodCommitIndex = goodCommitIndex]]
        ELSE IF invalidRange(badCommitIndex, goodCommitIndex)
        THEN [result |-> Thrown(InvalidRangeError(badCommit, goodCommit)),
              locals |-> [locals EXCEPT !.stage = "check", !.goodCommit = goodCommit,
                                        !.badCommit = badCommit,
                                        !.goodCommitIndex = goodCommitIndex,
                                        !.badCommitIndex = badCommitIndex]]
        ELSE [result |-> Returned(excludeFilter(buildsInRange, excludeCommits)),
              locals |-> [locals EXCEPT !.stage = "range", !.goodCommit = goodCommit,
                                        !.badCommit = badCommit,
                                        !.goodCommitIndex = goodCommitIndex,
                                        !.badCommitIndex = badCommitIndex,
                                        !.buildsInRange = buildsInRange]]

(***************************************************************************)
(* SpecRange: fetchBuilds over every bounded history file, discovery       *)
(* answer, pair of references and exclusion list.                          *)
(*                                                                         *)
(* The history file holds the records oldest first, each commit once       *)
(* (a commit identifies a build within a quality tier); the k-th oldest    *)
(* build is commit "c<k>".                                                 *)
(***************************************************************************)
MaxHistory == 3

MaxExclude == 1

CommitName(k) == "c" \o ToString(k)

DateValues == {NoDate, NumberDate(0), StringDate("2023-03-14"), NumberDate(19432)}

isPresent(date) == date.type # "undefined"

\* file order is oldest first: the dates that are present never decrease
OldestFirst(entries) ==
    \A i, j \in 1..Len(entries) :
        (i < j /\ isPresent(entries[i].date) /\ isPresent(entries[j].date))
            => buildTime(entries[i].date) <= buildTime(entries[j].date)

HistoryEntries ==
    UNION {{[k \in 1..n |-> [commit |-> CommitName(k), date |-> dates[k],
                             version |-> "1." \o ToString(k), assets |-> Undefined]] :
                dates \in {d \in [1..n -> DateValues] :
                            OldestFirst([k \in 1..n |-> [date |-> d[k]]])}} :
            n \in 0..MaxHistory}

\* readable: the try block of lines 47-54 completes.  It does not when the
\* file cannot be read, when its text is not JSON, or when the parsed value is
\* not an array (it has no slice or no reverse).
Unreadable == [readable |-> FALSE, entries |-> <<>>]

\* files whose text parses to an array that holds a null where a record belongs
NullFiles ==
    {[readable |-> TRUE, entries |-> <<Null>>],
     [readable |-> TRUE,
      entries |-> <<[commit |-> CommitName(1), date |-> NumberDate(19432),
                     version |-> "1.1", assets |-> Undefined], Null>>]}

HistoryFiles ==
    {Unreadable} \cup NullFiles
        \cup {[readable |-> TRUE, entries |-> e] : e \in HistoryEntries}

\* the discovery endpoint fails, or answers with the newest n commits, newest first
NoAnswer == [ok |-> FALSE, commits |-> <<>>]

DiscoveryAnswers ==
    {NoAnswer} \cup
    {[ok |-> TRUE, commits |-> [k \in 1..n |-> CommitName(n + 1 - k)]] : n \in 0..MaxHistory}

References ==
    {Undefined, "zz", "15-03-2023", "1-1-1970"} \cup {CommitName(k) : k \in 1..MaxHistory}

ExcludeLists ==
    UNION {[1..n -> {CommitName(1), CommitName(2), "zz"}] : n \in 0..MaxExclude}

RangeKind ==
    [runtime |-> DesktopLocal, commit |-> Undefined, quality |-> Stable,
     flavor |-> FlavorDefault, platform |-> Undefined, arch |-> Undefined]

\* the file of the one history the discovery override is tried against
SampleFile ==
    [readable |-> TRUE,
     entries |-> [k \in 1..2 |-> [commit |-> CommitName(k), date |-> NumberDate(19432),
                                  version |-> "1." \o ToString(k), assets |-> Undefined]]]

HistoryFilenames == {historyFilename(q) : q \in {Stable, Insider, VSCodiumInsider}}

\* the working directory: the history file of the quality, no other one readable
WorkingDirectory(quality, file) ==
    [name \in HistoryFilenames |-> IF name = historyFilename(quality) THEN file ELSE Unreadable]

InitRange ==
    /\ platform = MacOSArm
    /\ build = RangeKind
    /\ \E file \in HistoryFiles, remote \in DiscoveryAnswers,
          useDiscovery, releasedOnly \in BOOLEAN,
          goodCommit, badCommit \in References, excludeCommits \in ExcludeLists :
        /\ IF ~useDiscovery /\ file.readable /\ Len(file.entries) > 0
           THEN remote = NoAnswer /\ ~releasedOnly
           ELSE useDiscovery => file \in {Unreadable, SampleFile} \cup NullFiles
        /\ input = [cwd |-> WorkingDirectory(RangeKind.quality, file),
                    remote |-> remote, useDiscovery |-> useDiscovery,
                    releasedOnly |-> releasedOnly, goodCommit |-> goodCommit,
                    badCommit |-> badCommit, excludeCommits |-> excludeCommits]
    /\ range = NoRange
    /\ force = FALSE
    /\ pc = "idle"
    /\ buildName = Undefined
    /\ meta = NoMeta
    /\ result = NoResult
    /\ files = Empty
    /\ trees = Empty
    /\ net = <<>>
    /\ unzipped = FALSE
    /\ dl = Empty
    /\ forced = FALSE
    /\ calls = 0
    /\ spawned = <<>>
    /\ acquired = {}

\* line 82: await this.fetchAllBuilds(...)
FetchAllBuilds ==
    /\ pc = "idle"
    /\ LET r == fetchAllBuilds(build, input.releasedOnly, input.useDiscovery,
                               input.cwd, input.remote)
       IN  /\ net' = r.requests
           /\ IF r.ok
              THEN /\ pc' = "loaded"
                   /\ range' = [range EXCEPT !.allBuilds = r.value, !.stage = "loaded"]
                   /\ result' = result
              ELSE /\ pc' = "failed"
                   /\ range' = range
                   /\ result' = Thrown(r.value)
    /\ UNCHANGED <<spawned, acquired>>
    /\ UNCHANGED <<platform, build, force, buildName, meta, files, trees, unzipped, dl,
                   forced, calls, input>>

\* lines 84-133
ResolveRange ==
    /\ pc = "loaded"
    /\ LET r == resolveRange(range.allBuilds, input.goodCommit, input.badCommit,
                             input.excludeCommits)
       IN  /\ range' = r.locals
           /\ result' = r.result
           /\ pc' = IF r.result.status = "returned" THEN "done" ELSE "failed"
    /\ UNCHANGED <<spawned, acquired>>
    /\ UNCHANGED <<platform, build, force, buildName, meta, files, trees, net, unzipped,
                   dl, forced, calls, input>>

NextRange == FetchAllBuilds \/ ResolveRange

SpecRange == InitRange /\ [][NextRange]_vars

(***************************************************************************)
(* Properties of the History Source, Reference Resolver and Range Builder  *)
(* (checked under SpecRange).                                              *)
(***************************************************************************)
\* fetchBuilds has loaded the history and has returned or thrown
Resolved == pc \in {"done", "failed"} /\ range.stage # "load"

NoReferences == input.goodCommit = Undefined /\ input.badCommit = Undefined

NoExclusions == input.excludeCommits = <<>>

\* C6 (as claimed): with neither reference and no exclusions, fetchBuilds over
\* a history of N builds returns all N builds, for every N.
C6_FullListForEveryN ==
    (Resolved /\ NoReferences /\ NoExclusions) =>
        (result.status = "returned" /\ result.value = range.allBuilds)

\* C6 (amended): it returns all N builds when N >= 2; a history of fewer than
\* two builds makes it fail with the invalid-range error.
C6_FullListFromTwoBuilds ==
    (Resolved /\ NoReferences /\ NoExclusions) =>
        IF Len(range.allBuilds) >= 2
        THEN /\ result.status = "returned"
             /\ result.value = range.allBuilds
             /\ Len(result.value) = Len(range.allBuilds)
        ELSE /\ result.status = "thrown"
             /\ result.value = InvalidRangeError(Undefined, Undefined)

C6_Witness ==
    /\ Resolved /\ NoReferences /\ NoExclusions
    /\ result.status = "returned"
    /\ Len(result.value) = MaxHistory
    /\ result.value[1].commit = CommitName(MaxHistory)
    /\ result.value[MaxHistory].commit = "c1"

\* the 0-based position in the loaded history of the build with that commit
PositionOf(commit) ==
    (CHOOSE i \in 1..Len(range.allBuilds) : range.allBuilds[i].commit = commit) - 1

\* both references were resolved to positions (none was missing or unresolvable)
BothResolved == Resolved /\ range.stage \in {"check", "range"}

ResolvedGoodIndex ==
    IF range.goodCommit = Undefined THEN Len(range.allBuilds) - 1
    ELSE PositionOf(range.goodCommit)

ResolvedBadIndex ==
    IF range.badCommit = Undefined THEN 0 ELSE PositionOf(range.badCommit)

\* C7: fetchBuilds fails with the invalid-range error whenever the resolved bad
\* index is greater than or equal to the resolved good index, and returns a
\* range only when the bad index is smaller than the good index.
C7_InvalidRange ==
    /\ (Resolved /\ result.status = "returned") =>
            (BothResolved /\ ResolvedBadIndex < ResolvedGoodIndex)
    /\ (BothResolved /\ ResolvedBadIndex >= ResolvedGoodIndex) =>
            /\ result.status = "thrown"
            /\ result.value = InvalidRangeError(range.badCommit, range.goodCommit)

C7_Witness ==
    /\ BothResolved
    /\ input.goodCommit = "c2" /\ input.badCommit = "c2"
    /\ ResolvedBadIndex = ResolvedGoodIndex
    /\ result.status = "thrown"
    /\ result.value.error = "InvalidRangeError"

ExcludeSet == {input.excludeCommits[i] : i \in 1..Len(input.excludeCommits)}

RangeCommits == {range.buildsInRange[i].commit : i \in 1..Len(range.buildsInRange)}

\* the position in the range before the exclusions of the k-th build returned
RangePositionOf(k) ==
    CHOOSE i \in 1..Len(range.buildsInRange) : range.buildsInRange[i] = result.value[k]

\* C8: each excluded commit that is in the computed range removes exactly one
\* entry, an excluded commit that is not in it removes none, and the builds
\* that remain keep their newest-first order.
C8_Exclusions ==
    (Resolved /\ result.status = "returned") =>
        /\ Len(result.value) =
                Len(range.buildsInRange) - Cardinality(ExcludeSet \cap RangeCommits)
        /\ \A k \in 1..Len(result.value) :
                /\ result.value[k].commit \in RangeCommits \ ExcludeSet
                /\ \E i \in 1..Len(range.buildsInRange) :
                        range.buildsInRange[i] = result.value[k]
        /\ \A k, l \in 1..Len(result.value) :
                k < l => RangePositionOf(k) < RangePositionOf(l)

C8_Witness ==
    /\ Resolved /\ result.status = "returned"
    /\ input.excludeCommits = <<"c2">>
    /\ Len(range.buildsInRange) = 3
    /\ Len(result.value) = 2
    /\ result.value[1].commit = "c3" /\ result.value[2].commit = "c1"

\* the builds of the loaded history that have a date
Dated == {i \in 1..Len(range.allBuilds) : isPresent(range.allBuilds[i].date)}

\* the point in time a DD-MM-YYYY reference names
ReferenceTime(ref) ==
    DateLocal(splitDate(ref).year, splitDate(ref).month - 1, splitDate(ref).day)

Distance(i, ref) == abs(buildTime(range.allBuilds[i].date) - ReferenceTime(ref))

\* the first build, in iteration order, at minimum distance from the reference
Nearest(ref) ==
    CHOOSE i \in Dated :
        \A j \in Dated :
            Distance(i, ref) < Distance(j, ref)
                \/ (Distance(i, ref) = Distance(j, ref) /\ i <= j)

\* C9: a DD-MM-YYYY good reference resolves to the commit of the dated build
\* nearest in time to it (the first one on a tie), and resolution fails exactly
\* when no build of the history has a date.
C9_DateResolution ==
    (Resolved /\ dateRegexTest(input.goodCommit)) =>
        IF Dated = {}
        THEN /\ result.status = "thrown"
             /\ result.value = ResolutionError(input.goodCommit)
        ELSE /\ range.stage # "goodDate"
             /\ range.goodCommit = range.allBuilds[Nearest(input.goodCommit)].commit

\* C10: the loaded history is newest first: no build is older than the next
\* one, for every adjacent pair of builds that both have a date.
C10_NewestFirst ==
    range.stage # "load" =>
        \A i \in 1..(Len(range.allBuilds) - 1) :
            (isPresent(range.allBuilds[i].date) /\ isPresent(range.allBuilds[i + 1].date))
                => buildTime(range.allBuilds[i].date) >= buildTime(range.allBuilds[i + 1].date)

C10_Witness ==
    /\ pc = "loaded"
    /\ net = <<>>
    /\ Len(range.allBuilds) = 3
    /\ range.allBuilds[1].commit = "c3" /\ range.allBuilds[3].commit = "c1"
    /\ range.allBuilds[1].date = NumberDate(19432)
    /\ range.allBuilds[2].date = StringDate("2023-03-14")
    /\ range.allBuilds[3].date = NumberDate(0)

\* C11: with no exclusions and the bad index smaller than the good index,
\* fetchBuilds returns exactly the builds of the history from the bad index to
\* the good index inclusive, in the order of the history: goodIndex - badIndex
\* + 1 builds, the first one the bad build and the last one the good build.
C11_InclusiveSlice ==
    (BothResolved /\ NoExclusions /\ ResolvedBadIndex < ResolvedGoodIndex) =>
        /\ result.status = "returned"
        /\ Len(result.value) = ResolvedGoodIndex - ResolvedBadIndex + 1
        /\ \A k \in 1..Len(result.value) :
                result.value[k] = range.allBuilds[ResolvedBadIndex + k]
        /\ result.value[1] = range.allBuilds[ResolvedBadIndex + 1]
        /\ result.value[Len(result.value)] = range.allBuilds[ResolvedGoodIndex + 1]
        /\ range.badCommit # Undefined => result.value[1].commit = range.badCommit
        /\ range.goodCommit # Undefined =>
                result.value[Len(result.value)].commit = range.goodCommit

C11_Witness ==
    /\ BothResolved /\ NoExclusions
    /\ input.badCommit = "c3" /\ input.goodCommit = "c2"
    /\ Len(range.allBuilds) = 3
    /\ result.status = "returned"
    /\ Len(result.value) = 2
    /\ result.value[1].commit = "c3" /\ result.value[2].commit = "c2"

\* the history file of the quality in the working directory
HistoryFile == input.cwd[historyFilename(build.quality)]

\* the file cannot be read or parsed, or its array holds a null entry
UnreadableOrCorrupt ==
    \/ ~HistoryFile.readable
    \/ \E i \in 1..Len(HistoryFile.entries) : HistoryFile.entries[i] = Null

\* fetchAllBuilds has ended
Loaded == pc # "idle"

\* fetchAllBuilds threw
LoadingFailed == pc = "failed" /\ range.stage = "load"

DiscoveryUrl == commitsUrl(build, input.releasedOnly)

\* the builds came from the discovery query, or the query's error was thrown
Discovered ==
    /\ net = <<DiscoveryUrl>>
    /\ IF input.remote.ok
       THEN /\ ~LoadingFailed
            /\ range.allBuilds = [i \in 1..Len(input.remote.commits) |->
                                    minimalBuild(input.remote.commits[i], build)]
       ELSE /\ LoadingFailed
            /\ result.value.error = "DiscoveryError"

\* C13: an unreadable or corrupt history file never makes the loading fail: it
\* counts as an empty history and the discovery query is sent; the discovery
\* query is also sent whenever useDiscovery is set; the builds of a readable,
\* non-empty file are used only when useDiscovery is not set.
C13_HistoryFallback ==
    Loaded =>
        IF UnreadableOrCorrupt \/ input.useDiscovery \/ Len(HistoryFile.entries) = 0
        THEN Discovered
        ELSE /\ net = <<>>
             /\ ~LoadingFailed
             /\ range.allBuilds = [i \in 1..Len(HistoryFile.entries) |->
                    localBuild(HistoryFile.entries[Len(HistoryFile.entries) + 1 - i], build)]

(***************************************************************************)
(* Alternate-Channel Acquisition: downloadAndExtractBuild for a build of   *)
(* the VSCodium quality, which is downloadAndExtractVSCodium.  The build   *)
(* carries its version and its assets map; assets.present is FALSE when    *)
(* the build has no assets map.                                            *)
(***************************************************************************)
\* lines 303-313: the key of the assets map for the host, if there is one
assetKey ==
    CASE platform = MacOSArm -> "darwin_arm64"
      [] platform = MacOSX64 -> "darwin_x64"
      [] platform = LinuxX64 -> "linux_x64"
      [] platform = LinuxArm -> "linux_arm64"
      [] OTHER -> Undefined

\* lines 301, 309, 312
ext == IF platform = LinuxX64 \/ platform = LinuxArm THEN ".tar.gz" ELSE ".zip"

\* lines 300-313: assets[key], undefined when the map has no such key
assetUrl(assets) ==
    IF assetKey = Undefined \/ assetKey \notin DOMAIN assets.urls
    THEN Undefined
    ELSE assets.urls[assetKey]

\* line 315: !url
noUrl(url) == url = Undefined \/ url = ""

\* line 319
vscodiumBuildName(version) == "VSCodium-" \o version \o ext

\* line 321
zipPath == join(Folder, buildName)

\* exists(folder) of lines 323 and 328: the directory holds something
folderExists(folder) ==
    \/ \E p \in DOMAIN files : startsWith(p, folder \o "/")
    \/ \E t \in DOMAIN trees : startsWith(t[2], folder \o "/")

isMacOS == platform = MacOSArm \/ platform = MacOSX64

\* result.error || result.status !== 0 of a spawnSync result
SpawnStatuses == {"ok", "nonzero", "error"}

\* line 341
unzipFailed(status) == status # "ok"

ExternalToolError(tool, status) ==
    [error |-> "ExternalToolError", tool |-> tool, status |-> status]

\* lines 236-238 and 292-321: entry, up to the first await
AcquireAlt(forceReDownload) ==
    /\ pc \in Rest
    /\ calls < MaxCalls
    /\ build.quality = VSCodiumInsider
    /\ calls' = calls + 1
    /\ force' = forceReDownload
    /\ forced' = (forced \/ forceReDownload)
    /\ net' = <<>>
    /\ spawned' = <<>>
    /\ unzipped' = FALSE
    /\ IF ~build.assets.present
       THEN /\ pc' = "failed"
            /\ buildName' = Undefined
            /\ result' = Thrown([error |-> "MissingAssetsMapError",
                                 version |-> build.version, commit |-> build.commit])
       ELSE IF noUrl(assetUrl(build.assets))
       THEN /\ pc' = "failed"
            /\ buildName' = Undefined
            /\ result' = Thrown([error |-> "MissingAssetError", platform |-> platform,
                                 version |-> build.version])
       ELSE /\ pc' = "altcheck"
            /\ buildName' = vscodiumBuildName(build.version)
            /\ result' = NoResult
    /\ UNCHANGED <<platform, build, meta, files, trees, dl, acquired, input, range>>

\* lines 323-330: the cache check and the forced deletion
AltCheckCache ==
    /\ pc = "altcheck"
    /\ IF folderExists(Folder) /\ ~force
       THEN /\ pc' = "done"
            /\ result' = Returned(Folder)
            /\ UNCHANGED <<files, trees, acquired>>
       ELSE /\ pc' = "altdownload"
            /\ result' = result
            /\ IF folderExists(Folder)
               THEN /\ files' = rmFiles(Folder)
                    /\ trees' = rmTrees(Folder)
                    /\ acquired' = rmAcquired(Folder)
               ELSE UNCHANGED <<files, trees, acquired>>
    /\ UNCHANGED <<platform, build, force, buildName, meta, net, unzipped, dl, forced,
                   calls, spawned, input, range>>

\* line 333: await fileGet(url, zipPath), which writes the whole body to
\* zipPath or throws before it wrote anything
AltDownload ==
    /\ pc = "altdownload"
    /\ net' = Append(net, assetUrl(build.assets))
    /\ \/ /\ files' = [p \in DOMAIN files \cup {zipPath} |->
                          IF p = zipPath THEN "sha-" \o buildName ELSE files[p]]
          /\ dl' = [p \in DOMAIN dl \cup {zipPath} |->
                          IF p = zipPath
                          THEN (IF p \in DOMAIN dl THEN dl[p] ELSE 0) + 1
                          ELSE dl[p]]
          /\ pc' = "altunzip"
          /\ result' = result
       \/ /\ pc' = "failed"
          /\ result' = Thrown([error |-> "DownloadError", url |-> assetUrl(build.assets)])
          /\ UNCHANGED <<files, dl>>
    /\ UNCHANGED <<platform, build, force, buildName, meta, trees, unzipped, forced,
                   calls, spawned, acquired, input, range>>

\* lines 336-348 on macOS: spawnSync('unzip', ...), whose archive holds a
\* VSCodium.app ("full") or does not ("noapp"); lines 378-381 elsewhere:
\* await unzip(zipPath, destination) and the return
AltUnzip ==
    /\ pc = "altunzip"
    /\ LET t == <<Folder, zipPath>>
           tree(state) == [x \in DOMAIN trees \cup {t} |->
                              IF x = t THEN state ELSE trees[x]]
       IN  IF isMacOS
           THEN \E status \in SpawnStatuses :
                  /\ spawned' = Append(spawned, [tool |-> "unzip", status |-> status])
                  /\ unzipped' = unzipped
                  /\ acquired' = acquired
                  /\ IF unzipFailed(status)
                     THEN /\ pc' = "failed"
                          /\ result' = Thrown(ExternalToolError("unzip", status))
                          /\ trees' = IF status = "error" THEN trees ELSE tree("partial")
                     ELSE /\ pc' = "altpost"
                          /\ result' = result
                          /\ \E state \in {"full", "noapp"} : trees' = tree(state)
           ELSE /\ unzipped' = TRUE
                /\ spawned' = spawned
                /\ \/ /\ trees' = tree("full")
                      /\ pc' = "done"
                      /\ result' = Returned(Folder)
                      /\ acquired' = acquired \cup {Acquisition(Folder, Folder)}
                   \/ /\ trees' = tree("partial")
                      /\ pc' = "failed"
                      /\ result' = Thrown([error |-> "ExtractError", archive |-> zipPath])
                      /\ acquired' = acquired
    /\ UNCHANGED <<platform, build, force, buildName, meta, files, net, dl, forced,
                   calls, input, range>>

\* lines 348-381 on macOS: product.json is patched when the bundle has one
\* (reading or parsing it may throw), then xattr and codesign are spawned and
\* their results dropped, then the folder is returned
AltPostProcess ==
    /\ pc = "altpost"
    /\ LET t == <<Folder, zipPath>>
       IN  IF trees[t] = "noapp"
           THEN /\ pc' = "done"
                /\ result' = Returned(Folder)
                /\ acquired' = acquired \cup {Acquisition(Folder, Folder)}
                /\ UNCHANGED <<trees, spawned>>
           ELSE \/ /\ pc' = "failed"
                   /\ result' = Thrown([error |-> "PatchError", archive |-> zipPath])
                   /\ UNCHANGED <<trees, spawned, acquired>>
                \/ \E patched \in BOOLEAN, xattr, codesign \in SpawnStatuses :
                      /\ trees' = [trees EXCEPT ![t] = IF patched THEN "patched" ELSE "full"]
                      /\ spawned' = spawned \o <<[tool |-> "xattr", status |-> xattr],
                                                 [tool |-> "codesign", status |-> codesign]>>
                      /\ pc' = "done"
                      /\ result' = Returned(Folder)
                      /\ acquired' = acquired \cup {Acquisition(Folder, Folder)}
    /\ UNCHANGED <<platform, build, force, buildName, meta, files, net, unzipped, dl,
                   forced, calls, input, range>>

AssetKeys == {"darwin_arm64", "darwin_x64", "linux_x64", "linux_arm64"}

AssetUrl(key) == "https://vscodium/" \o key

NoAssets == [present |-> FALSE, urls |-> <<>>]

\* no assets map, a map with every key, a map with some keys missing or empty
AssetMaps ==
    {NoAssets,
     [present |-> TRUE, urls |-> [k \in AssetKeys |-> AssetUrl(k)]],
     [present |-> TRUE,
      urls |-> [k \in {"darwin_x64", "linux_x64"} |->
                    IF k = "linux_x64" THEN "" ELSE AssetUrl(k)]]}

InitAlt ==
    /\ platform \in Platforms
    /\ build \in [runtime : {DesktopLocal}, commit : Commits, quality : {VSCodiumInsider},
                  flavor : {FlavorDefault, FlavorCliLinuxAmd64},
                  platform : {Undefined}, arch : {Undefined},
                  version : {"1.96.0", Undefined}, assets : AssetMaps]
    /\ force = FALSE
    /\ pc = "idle"
    /\ buildName = Undefined
    /\ meta = NoMeta
    /\ result = NoResult
    /\ files = Empty
    /\ trees = Empty
    /\ net = <<>>
    /\ unzipped = FALSE
    /\ dl = Empty
    /\ forced = FALSE
    /\ calls = 0
    /\ spawned = <<>>
    /\ acquired = {}
    /\ input = Undefined
    /\ range = Undefined

NextAlt ==
    \/ \E forceReDownload \in BOOLEAN : AcquireAlt(forceReDownload)
    \/ AltCheckCache
    \/ AltDownload
    \/ AltUnzip
    \/ AltPostProcess

SpecAlt == InitAlt /\ [][NextAlt]_vars

(***************************************************************************)
(* Properties of the Alternate-Channel Acquisition (checked under SpecAlt).*)
(***************************************************************************)
\* an external tool the call ran failed (non-zero exit or spawn error)
ToolFailed == \E i \in 1..Len(spawned) : spawned[i].status # "ok"

\* C14: on macOS, when unzip, xattr or codesign exits non-zero or cannot be
\* spawned, the call fails: a call that returned a path ran no tool that failed.
C14_ToolFailureIsFatal ==
    (isMacOS /\ ToolFailed /\ pc \in {"done", "failed"}) =>
        (pc = "failed" /\ result.status = "thrown")

\* the folder was extracted to by the call in progress
Extracted(ts) ==
    /\ <<Folder, zipPath>> \in DOMAIN ts
    /\ ts[<<Folder, zipPath>>] \in {"full", "noapp", "patched"}

\* C15: a call with forceReDownload unset that finds the cache folder of its key
\* returns the folder without downloading or running a tool; one with
\* forceReDownload set deletes the folder and returns only after it downloaded
\* and extracted again; and the folder a call finds and returns from the cache
\* was left by a call that ran to completion.
C15_AltCacheMirrorsPrimary ==
    [][/\ (pc = "altcheck" /\ folderExists(Folder) /\ ~force) =>
            /\ pc' = "done"
            /\ result' = Returned(Folder)
            /\ net' = <<>> /\ spawned' = <<>> /\ ~unzipped'
            /\ dl' = dl /\ files' = files /\ trees' = trees
            /\ \E a \in acquired : a.key = Folder
       /\ (pc = "altcheck" /\ folderExists(Folder) /\ force) =>
            /\ FolderGone(files', trees')
            /\ dl' = dl
            /\ pc' = "altdownload"
       /\ (force /\ pc \notin Rest /\ pc' = "done") =>
            /\ zipPath \in DOMAIN dl /\ dl[zipPath] >= 1
            /\ net'[Len(net')] = assetUrl(build.assets)
            /\ Extracted(trees')
            /\ result' = Returned(Folder)]_vars

(***************************************************************************)
(* SpecNames: the Platform Naming Resolver applied to every build kind,    *)
(* with the build's own platform and arch present or absent, on every      *)
(* host.                                                                   *)
(***************************************************************************)
InitNames ==
    /\ platform \in Platforms
    /\ build \in [runtime : Runtimes, commit : Commits, quality : Qualities,
                  flavor : Flavors, platform : Platforms \cup {Undefined},
                  arch : Archs \cup {Undefined}]
    /\ force = FALSE
    /\ pc = "idle"
    /\ buildName = Undefined
    /\ meta = NoMeta
    /\ result = NoResult
    /\ files = Empty
    /\ trees = Empty
    /\ net = <<>>
    /\ unzipped = FALSE
    /\ dl = Empty
    /\ forced = FALSE
    /\ calls = 0
    /\ spawned = <<>>
    /\ acquired = {}
    /\ input = Undefined
    /\ range = Undefined

\* this.getBuildApiName(build)
GetBuildApiName ==
    /\ pc = "idle"
    /\ pc' = "apiName"
    /\ result' = Returned(getBuildApiName(build))
    /\ UNCHANGED <<platform, build, force, buildName, meta, files, trees, net, unzipped,
                   dl, forced, calls, spawned, acquired, input, range>>

\* this.getPlatformName(build)
GetPlatformName ==
    /\ pc = "idle"
    /\ pc' = "platformName"
    /\ result' = Returned(getPlatformName(build))
    /\ UNCHANGED <<platform, build, force, buildName, meta, files, trees, net, unzipped,
                   dl, forced, calls, spawned, acquired, input, range>>

NextNames == GetBuildApiName \/ GetPlatformName

SpecNames == InitNames /\ [][NextNames]_vars

(***************************************************************************)
(* Properties of the Platform Naming Resolver (checked under SpecNames).   *)
(***************************************************************************)
\* the <os> of a platform, as the names spell it
OsOf(p) ==
    CASE p \in {MacOSX64, MacOSArm} -> "darwin"
      [] p \in {LinuxX64, LinuxArm} -> "linux"
      [] p \in {WindowsX64, WindowsArm} -> "win32"

\* C16: for a server-tier runtime (web local or web remote) the API name is
\* server-<os>-<arch>-web, <os> and <arch> being those of the effective
\* platform and arch, whatever the flavor, on every platform.
C16_ServerApiName ==
    (pc = "apiName" /\ isServer(build)) =>
        result.value = "server-" \o OsOf(effectivePlatform(build)) \o "-"
                            \o effectiveArch(build) \o "-web"

====
